---- MODULE Spec2Model ----
(***************************************************************************)
(* concat-js.py: main() validates sys.argv and the input directory, then   *)
(* processa_js_files() opens the output file for writing, walks the        *)
(* directory with os.walk and, for every file whose name ends with ".js",  *)
(* writes the line //<name>, then the file's text and a newline, or a      *)
(* comment "// Impossibile leggere ..." when the file cannot be read.      *)
(*                                                                         *)
(* Text is a sequence of one-character strings (a few fixed literals of    *)
(* the program are kept as one token each).  The filesystem is a map from  *)
(* paths <<directory, name>> to nodes plus the listing order of each       *)
(* directory, which is the order os.scandir returns.  Directories can be   *)
(* listed and hold regular files and directories; the platform is POSIX;   *)
(* nothing but the program changes the file system while it runs.          *)
(***************************************************************************)
EXTENDS Integers, Sequences, FiniteSets, TLC

\* ---------------------------------------------------------------- bounds
\* most entries in the listing of the input directory
MaxEntries == 2
\* most entries in the listing of its subdirectory
MaxSubEntries == 1
\* most positional arguments on the command line
MaxArgs == 3
\* characters the output stream holds back before it writes them to the file
BufSize == 8

\* ------------------------------------------------------------ characters
LF == "\n"
CR == "\r"
\* a byte that is not valid UTF-8
BAD == "\\xff"
\* a lone surrogate: what os.walk puts in a name for a byte that is not UTF-8
SUR == "\\udcff"

Range(s) == {s[i] : i \in 1..Len(s)}

RECURSIVE Flatten(_)
Flatten(ss) == IF ss = <<>> THEN <<>> ELSE Head(ss) \o Flatten(Tail(ss))

IsPrefix(p, s) == Len(p) <= Len(s) /\ SubSeq(s, 1, Len(p)) = p

\* sequences over S without repetition, of length at most n
InjSeqs(S, n) ==
    {s \in UNION {[1..k -> S] : k \in 0..n} :
        \A i, j \in 1..Len(s) : i # j => s[i] # s[j]}

\* ------------------------------------------------------- the file system
\* the files a directory may hold: name, bytes, permission bits
Files ==
    { [name |-> <<"o", ".", "j", "s">>, content |-> <<"x", LF>>,     mode |-> "rw"],
      [name |-> <<"b", ".", "j", "s">>, content |-> <<"z", CR, LF, "y">>, mode |-> "rw"],
      [name |-> <<"e", ".", "j", "s">>, content |-> <<"w">>,         mode |-> "none"],
      [name |-> <<"u", ".", "j", "s">>, content |-> <<"v", BAD>>,    mode |-> "rw"],
      [name |-> <<"c", ".", "j", "s", "x">>, content |-> <<"t">>,    mode |-> "rw"],
      [name |-> <<SUR, ".", "j", "s">>, content |-> <<"s">>,         mode |-> "rw"] }

FileNames == {x.name : x \in Files}
FileNamed(n) == CHOOSE x \in Files : x.name = n

\* the subdirectory of the input directory; its name ends with .js too
SubName == <<"m", ".", "j", "s">>
\* the input directory, in the working directory
RootName == <<"r">>
\* a file of the working directory, outside the input directory
TxtName == <<"o", ".", "t", "x", "t">>

RootPath == <<"cwd", RootName>>
TxtPath == <<"cwd", TxtName>>
MissingPath == <<"cwd", <<"z">>>>

DirNode(d) == [isdir |-> TRUE, sub |-> d, content |-> <<>>, mode |-> "rw"]
FileNode(c, m) == [isdir |-> FALSE, sub |-> "", content |-> c, mode |-> m]

\* the nodes of a tree whose input directory lists rl and whose subdirectory lists sl
NodesOf(rl, sl) ==
    LET P == {RootPath, TxtPath}
             \cup {<<"root", rl[i]>> : i \in 1..Len(rl)}
             \cup {<<"sub", sl[i]>> : i \in 1..Len(sl)}
    IN [p \in P |->
          IF p = RootPath THEN DirNode("root")
          ELSE IF p = TxtPath THEN FileNode(<<"q">>, "rw")
          ELSE IF p = <<"root", SubName>> THEN DirNode("sub")
          ELSE FileNode(FileNamed(p[2]).content, FileNamed(p[2]).mode)]

ListingOf(rl, sl) ==
    IF SubName \in Range(rl)
    THEN [d \in {"cwd", "root", "sub"} |->
            IF d = "cwd" THEN <<RootName, TxtName>> ELSE IF d = "root" THEN rl ELSE sl]
    ELSE [d \in {"cwd", "root"} |->
            IF d = "cwd" THEN <<RootName, TxtName>> ELSE rl]

Trees ==
    {[node |-> NodesOf(rl, sl), listing |-> ListingOf(rl, sl)] :
        <<rl, sl>> \in
          {t \in InjSeqs(FileNames \cup {SubName}, MaxEntries)
                   \X InjSeqs(FileNames, MaxSubEntries) :
              SubName \notin Range(t[1]) => t[2] = <<>>}}

\* ------------------------------------------------------ the command line
\* sys.argv[0]
Prog == <<"cwd", <<"p">>>>
InPaths == {RootPath, TxtPath, MissingPath}
OutPaths == { TxtPath,
              <<"root", <<"o", ".", "j", "s">>>>,
              <<"sub", <<"o", ".", "j", "s">>>>,
              <<"root", <<"e", ".", "j", "s">>>> }

Argvs ==
    {<<Prog, i, o>> : i \in InPaths, o \in OutPaths}
    \cup {SubSeq(<<Prog, RootPath>> \o [k \in 1..MaxArgs |-> TxtPath], 1, n) :
            n \in (1..(MaxArgs + 1)) \ {3}}

\* ------------------------------------------------- the program's strings
\* line 13: the suffix tested
suffix == <<".", "j", "s">>

\* a suffix test gone wrong: ".js" in filename
Contains(s, suf) ==
    \E i \in 1..Len(s) : i + Len(suf) - 1 <= Len(s) /\ SubSeq(s, i, i + Len(suf) - 1) = suf

\* line 13: filename.endswith(".js")
EndsWith(s, suf) ==
    Len(s) >= Len(suf) /\ SubSeq(s, Len(s) - Len(suf) + 1, Len(s)) = suf

\* line 15: f"//{filename}\n"
Header(name) == <<"//">> \o name \o <<LF>>

\* the content written without the newline after it
Bare(text) == text

\* line 19: contenuto + "\n"
Body(text) == text \o <<LF>>

\* line 21: f"// Impossibile leggere {filename}: {e}\n"
Annotation(name, err) == <<"// Impossibile leggere ">> \o name \o <<": ">> \o err \o <<LF>>

\* line 14: os.path.join(root, filename), as text
PathText(d, name) ==
    (IF d = "sub" THEN RootName \o <<"/">> \o SubName ELSE RootName) \o <<"/">> \o name

\* str(e) of the PermissionError that open(percorso_file, "r") raises
PermissionDenied(d, name) ==
    <<"[Errno 13] Permission denied: '">> \o PathText(d, name) \o <<"'">>

\* str(e) of the UnicodeDecodeError that f.read() raises
CannotDecode == <<"'utf-8' codec can't decode byte 0xff">>

\* the UTF-8 codec of the output stream refuses lone surrogates
Encodable(text) == SUR \notin Range(text)

\* the UTF-8 codec of the input stream refuses invalid bytes
Decodable(bytes) == BAD \notin Range(bytes)

\* text mode, newline=None, reading: \r\n and \r become \n
RECURSIVE Newlines(_)
Newlines(b) ==
    IF b = <<>> THEN <<>>
    ELSE IF Head(b) = CR
         THEN IF Len(b) > 1 /\ b[2] = LF
              THEN <<LF>> \o Newlines(SubSeq(b, 3, Len(b)))
              ELSE <<LF>> \o Newlines(Tail(b))
         ELSE <<Head(b)>> \o Newlines(Tail(b))

\* os.linesep of the platform (POSIX)
linesep == <<LF>>

\* text mode, newline=None, writing: \n becomes os.linesep
RECURSIVE Encode(_)
Encode(t) ==
    IF t = <<>> THEN <<>>
    ELSE (IF Head(t) = LF THEN linesep ELSE <<Head(t)>>) \o Encode(Tail(t))

\* an argument count test gone wrong: len(sys.argv) < 3
TooFew(a) == Len(a) < 3

\* line 24: len(sys.argv) != 3
WrongArgc(a) == Len(a) # 3

\* s with x put after its first i elements
InsertAt(s, i, x) == SubSeq(s, 1, i) \o <<x>> \o SubSeq(s, i + 1, Len(s))

\* ----------------------------------------------------------------- state
VARIABLES
    argv,       \* sys.argv
    node,       \* the file system: path -> node
    listing,    \* the file system: directory -> names in os.scandir order
    pc,         \* where the program is
    status,     \* the exit status, -1 while the process runs
    stdout,     \* what was printed
    out,        \* the output stream: open or not, and what it holds back
    walk,       \* the os.walk generator: the directories still to list
    root,       \* line 11: the directory being listed
    files,      \* line 12: the names of root not yet iterated
    filename,   \* line 12
    f,          \* line 17: the input stream is open
    contenuto,  \* line 18
    e,          \* line 20: str(e)
    blocks,     \* history: what each header and what follows it wrote
    opens,      \* history: how often the output was opened in this run
    second,     \* history: this is the second run in succession
    first,      \* history: the output file after the first run
    before      \* history: the file system when the first run started

vars == <<argv, node, listing, pc, status, stdout, out, walk, root, files,
          filename, f, contenuto, e, blocks, opens, second, first, before>>

locals == <<root, files, filename, f, contenuto, e>>

\* lines 28, 29 and 35: the arguments main hands to processa_js_files
cartella == argv[2]
file_output == argv[3]

\* line 14
percorso_file == <<root, filename>>

\* a directory test gone wrong: os.path.exists
exists(p) == p \in DOMAIN node

\* line 31: os.path.isdir
isdir(p) == p \in DOMAIN node /\ node[p].isdir

\* the bytes of the output file, when the command line names one that exists
OutputFile ==
    IF Len(argv) >= 3 /\ argv[3] \in DOMAIN node /\ ~node[argv[3]].isdir
    THEN node[argv[3]].content
    ELSE <<"no file">>

Init ==
    /\ argv \in Argvs
    /\ \E t \in Trees : node = t.node /\ listing = t.listing
    /\ pc = "main"
    /\ status = -1
    /\ stdout = <<>>
    /\ out = [open |-> FALSE, buf |-> <<>>]
    /\ walk = <<>>
    /\ root = ""
    /\ files = <<>>
    /\ filename = <<>>
    /\ f = FALSE
    /\ contenuto = <<>>
    /\ e = <<>>
    /\ blocks = <<>>
    /\ opens = 0
    /\ second = FALSE
    /\ first = <<>>
    /\ before = [node |-> node, listing |-> listing]

\* ------------------------------------------------------------------ main
\* lines 24-26: the argument count
CheckArgs ==
    /\ pc = "main"
    /\ IF WrongArgc(argv)
       THEN /\ stdout' = Append(stdout, "Uso")
            /\ status' = 1
            /\ pc' = "exit"
       ELSE /\ pc' = "isdir"
            /\ UNCHANGED <<stdout, status>>
    /\ UNCHANGED <<argv, node, listing, out, walk, locals, blocks, opens,
                   second, first, before>>

\* lines 31-33: the input directory
CheckDir ==
    /\ pc = "isdir"
    /\ IF ~isdir(cartella)
       THEN /\ stdout' = Append(stdout, "Errore")
            /\ status' = 1
            /\ pc' = "exit"
       ELSE /\ pc' = "open"
            /\ UNCHANGED <<stdout, status>>
    /\ UNCHANGED <<argv, node, listing, out, walk, locals, blocks, opens,
                   second, first, before>>

\* line 36, and the return from main
Complete ==
    /\ pc = "print"
    /\ stdout' = Append(stdout, "Elaborazione completata")
    /\ status' = 0
    /\ pc' = "done"
    /\ UNCHANGED <<argv, node, listing, out, walk, locals, blocks, opens,
                   second, first, before>>

\* ----------------------------------------------------- processa_js_files
\* open(file_output, "w") succeeds: the directory exists, and the path is
\* free or a file that may be written
CanOpenW(p) ==
    /\ p[1] \in DOMAIN listing
    /\ p \in DOMAIN node => ~node[p].isdir /\ node[p].mode = "rw"

\* mode "a" on a file that exists: nothing is cut
Kept(n) == n

\* mode "w" on a file that exists
Truncated(n) == [n EXCEPT !.content = <<>>]

\* an output file made only when the stream is closed: not listed meanwhile
NotListed(l, i, name) == l

\* mode "w" on a path that is free: the directory lists the new file
Created(l, i, name) == InsertAt(l, i, name)

\* line 10: the with statement opens the output; an OSError leaves main
OpenOut ==
    /\ pc = "open"
    /\ IF ~CanOpenW(file_output)
       THEN /\ pc' = "crash"
            /\ status' = 1
            /\ UNCHANGED <<node, listing, out, opens>>
       ELSE /\ IF file_output \in DOMAIN node
               THEN /\ node' = [node EXCEPT ![file_output] = Truncated(@)]
                    /\ listing' = listing
               ELSE /\ node' = node @@ (file_output :> FileNode(<<>>, "rw"))
                    /\ \E i \in 0..Len(listing[file_output[1]]) :
                         listing' = [listing EXCEPT ![file_output[1]] =
                                        Created(@, i, file_output[2])]
            /\ out' = [open |-> TRUE, buf |-> <<>>]
            /\ opens' = opens + 1
            /\ pc' = "os.walk"
            /\ status' = status
    /\ UNCHANGED <<argv, stdout, walk, locals, blocks, second, first, before>>

\* line 11: os.walk(cartella) makes the generator; a top that is no
\* directory yields nothing
CallWalk ==
    /\ pc = "os.walk"
    /\ walk' = IF cartella \in DOMAIN node /\ node[cartella].isdir
               THEN <<node[cartella].sub>>
               ELSE <<>>
    /\ pc' = "for root"
    /\ UNCHANGED <<argv, node, listing, status, stdout, out, locals, blocks,
                   opens, second, first, before>>

\* the directories os.walk visits after it has yielded directory d:
\* the subdirectories of d, in listing order, before the ones already waiting
Descend(d, waiting) ==
    LET names == SelectSeq(listing[d], LAMBDA n : node[<<d, n>>].isdir)
    IN [i \in 1..Len(names) |-> node[<<d, names[i]>>].sub] \o waiting

\* the names iterated from the last to the first: reversed(files)
Reversed(d) ==
    LET l == SelectSeq(listing[d], LAMBDA n : ~node[<<d, n>>].isdir)
    IN [i \in 1..Len(l) |-> l[Len(l) + 1 - i]]

\* line 11: the files os.walk yields for directory d: the names of the
\* listing that are no directories, in listing order
NonDirs(d) == SelectSeq(listing[d], LAMBDA n : ~node[<<d, n>>].isdir)

\* line 11: the generator lists the next directory and yields it, or ends
WalkNext ==
    /\ pc = "for root"
    /\ IF walk = <<>>
       THEN /\ pc' = "close"
            /\ UNCHANGED <<walk, root, files>>
       ELSE /\ root' = Head(walk)
            /\ files' = NonDirs(Head(walk))
            /\ walk' = Descend(Head(walk), Tail(walk))
            /\ pc' = "for filename"
    /\ UNCHANGED <<argv, node, listing, status, stdout, out, filename, f,
                   contenuto, e, blocks, opens, second, first, before>>

\* lines 12-13: the next name of files, and the suffix test
NextFile ==
    /\ pc = "for filename"
    /\ IF files = <<>>
       THEN /\ pc' = "for root"
            /\ UNCHANGED <<files, filename>>
       ELSE /\ filename' = Head(files)
            /\ files' = Tail(files)
            /\ pc' = IF EndsWith(Head(files), suffix) THEN "header" ELSE "for filename"
    /\ UNCHANGED <<argv, node, listing, status, stdout, out, walk, root, f,
                   contenuto, e, blocks, opens, second, first, before>>

\* out.write(text): the stream encodes the text and holds it back until
\* more than BufSize characters wait, then writes them all to the file
Write(text) ==
    LET b == out.buf \o Encode(text)
    IN IF Len(b) > BufSize
       THEN /\ node' = [node EXCEPT ![file_output].content = @ \o b]
            /\ out' = [out EXCEPT !.buf = <<>>]
       ELSE /\ node' = node
            /\ out' = [out EXCEPT !.buf = b]

\* line 15: the header line; a name the codec refuses raises
\* UnicodeEncodeError, outside the try
WriteHeader ==
    /\ pc = "header"
    /\ IF Encodable(Header(filename))
       THEN /\ Write(Header(filename))
            /\ blocks' = Append(blocks, [src |-> percorso_file,
                                         text |-> Header(filename),
                                         read |-> "no", raw |-> <<>>])
            /\ pc' = "open r"
       ELSE /\ pc' = "raise"
            /\ UNCHANGED <<node, out, blocks>>
    /\ UNCHANGED <<argv, listing, status, stdout, walk, locals, opens,
                   second, first, before>>

\* line 17: open(percorso_file, "r")
OpenIn ==
    /\ pc = "open r"
    /\ IF node[percorso_file].mode = "rw"
       THEN /\ f' = TRUE
            /\ pc' = "read"
            /\ UNCHANGED <<e, blocks>>
       ELSE /\ e' = PermissionDenied(root, filename)
            /\ blocks' = [blocks EXCEPT ![Len(blocks)].read = "failed"]
            /\ pc' = "except"
            /\ f' = f
    /\ UNCHANGED <<argv, node, listing, status, stdout, out, walk, root, files,
                   filename, contenuto, opens, second, first, before>>

\* line 18: f.read() decodes the whole file; when it raises, the with
\* statement of line 17 closes f
ReadIn ==
    /\ pc = "read"
    /\ LET raw == node[percorso_file].content
       IN IF Decodable(raw)
          THEN /\ contenuto' = Newlines(raw)
               /\ blocks' = [blocks EXCEPT ![Len(blocks)].read = "ok",
                                           ![Len(blocks)].raw = raw]
               /\ pc' = "write"
               /\ UNCHANGED <<e, f>>
          ELSE /\ e' = CannotDecode
               /\ blocks' = [blocks EXCEPT ![Len(blocks)].read = "failed",
                                           ![Len(blocks)].raw = raw]
               /\ f' = FALSE
               /\ pc' = "except"
               /\ contenuto' = contenuto
    /\ UNCHANGED <<argv, node, listing, status, stdout, out, walk, root, files,
                   filename, opens, second, first, before>>

\* line 19, and the end of the with statement of line 17
WriteContent ==
    /\ pc = "write"
    /\ Write(Body(contenuto))
    /\ blocks' = [blocks EXCEPT ![Len(blocks)].text = @ \o Body(contenuto)]
    /\ f' = FALSE
    /\ pc' = "for filename"
    /\ UNCHANGED <<argv, listing, status, stdout, walk, root, files, filename,
                   contenuto, e, opens, second, first, before>>

\* lines 20-21: the handler writes the comment and the loop goes on
Except ==
    /\ pc = "except"
    /\ Write(Annotation(filename, e))
    /\ blocks' = [blocks EXCEPT ![Len(blocks)].text = @ \o Annotation(filename, e)]
    /\ pc' = "for filename"
    /\ UNCHANGED <<argv, listing, status, stdout, walk, locals, opens,
                   second, first, before>>

\* closing the output stream writes what it held back
Closed(o) == [open |-> FALSE, buf |-> <<>>]

\* line 10: the with statement ends after the loop
CloseOut ==
    /\ pc = "close"
    /\ node' = [node EXCEPT ![file_output].content = @ \o out.buf]
    /\ out' = Closed(out)
    /\ pc' = "print"
    /\ UNCHANGED <<argv, listing, status, stdout, walk, locals, blocks, opens,
                   second, first, before>>

\* the output opened without a with statement: an exception leaves it
\* open, with what it holds back unwritten
Leak ==
    /\ pc = "raise"
    /\ status' = 1
    /\ pc' = "crash"
    /\ UNCHANGED <<argv, node, listing, stdout, out, walk, locals, blocks, opens,
                   second, first, before>>

\* line 10: an exception leaves the with statement, which closes the
\* output; nothing catches it and the process ends with a traceback
Unwind ==
    /\ pc = "raise"
    /\ node' = [node EXCEPT ![file_output].content = @ \o out.buf]
    /\ out' = Closed(out)
    /\ status' = 1
    /\ pc' = "crash"
    /\ UNCHANGED <<argv, listing, stdout, walk, locals, blocks, opens,
                   second, first, before>>

\* ------------------------------------------------------------- the runs
Final == {"done", "exit", "crash"}

\* the program is run once more, with the same command line
Rerun ==
    /\ pc \in Final
    /\ ~second
    /\ second' = TRUE
    /\ first' = OutputFile
    /\ pc' = "main"
    /\ status' = -1
    /\ stdout' = <<>>
    /\ walk' = <<>>
    /\ root' = ""
    /\ files' = <<>>
    /\ filename' = <<>>
    /\ f' = FALSE
    /\ contenuto' = <<>>
    /\ e' = <<>>
    /\ blocks' = <<>>
    /\ opens' = 0
    /\ UNCHANGED <<argv, node, listing, out, before>>

Next ==
    \/ CheckArgs
    \/ CheckDir
    \/ OpenOut
    \/ CallWalk
    \/ WalkNext
    \/ NextFile
    \/ WriteHeader
    \/ OpenIn
    \/ ReadIn
    \/ WriteContent
    \/ Except
    \/ CloseOut
    \/ Unwind
    \/ Complete
    \/ Rerun

Spec == Init /\ [][Next]_vars

\* ------------------------------------------------------------ properties
\* a name that ends with the three characters . j s
IsJs(name) ==
    /\ Len(name) >= 3
    /\ name[Len(name) - 2] = "."
    /\ name[Len(name) - 1] = "j"
    /\ name[Len(name)] = "s"

\* the files under the input directory, those that match and those that do not
UnderRoot == {p \in DOMAIN node : p[1] \in {"root", "sub"} /\ ~node[p].isdir}
Matching == {p \in UnderRoot : IsJs(p[2])}
NonMatching == UnderRoot \ Matching

\* the line that heads the block of a file
HeaderLine(name) == <<"//">> \o name \o <<LF>>

\* the comment line written for a file that could not be read
ErrorLine(name) == <<"// Impossibile leggere ">> \o name \o <<": ">>

\* block i is complete: the program is past what follows its header
Finished(i) == i < Len(blocks) \/ pc \notin {"open r", "read", "write", "except"}

\* everything the first n blocks wrote, in order
WrittenBy(n) == Flatten([i \in 1..n |-> blocks[i].text])

\* the files in the order a top-down walk without sorting yields them: the
\* files of a directory in listing order, then each subdirectory in turn
RECURSIVE Yielded(_)
Yielded(d) ==
    LET fs == SelectSeq(listing[d], LAMBDA n : ~node[<<d, n>>].isdir)
        ds == SelectSeq(listing[d], LAMBDA n : node[<<d, n>>].isdir)
    IN [i \in 1..Len(fs) |-> <<d, fs[i]>>]
       \o Flatten([i \in 1..Len(ds) |-> Yielded(node[<<d, ds[i]>>].sub)])

Candidates == SelectSeq(Yielded("root"), LAMBDA p : IsJs(p[2]))

\* what the output file held when this run started, if it existed
Existed ==
    second \/ (Len(argv) >= 3 /\ argv[3] \in DOMAIN before.node)
Old == IF second THEN first ELSE before.node[argv[3]].content

C2_RawContent ==
    \A i \in 1..Len(blocks) :
        (blocks[i].read = "ok" /\ Finished(i)) =>
            blocks[i].text = HeaderLine(blocks[i].src[2]) \o blocks[i].raw \o <<LF>>

\* C2, amended: the block of a file that was read is the header line, then
\* the file's text with every \r\n and every lone \r read as \n, then one
\* newline; the bytes read are those of the file.
C2_DecodedContent ==
    \A i \in 1..Len(blocks) :
        (blocks[i].read = "ok" /\ Finished(i)) =>
            /\ blocks[i].text =
                 HeaderLine(blocks[i].src[2]) \o Newlines(blocks[i].raw) \o <<LF>>
            /\ blocks[i].src # file_output =>
                 blocks[i].raw = node[blocks[i].src].content

\* C2 witness: the output holds the block of a file that ends with a
\* newline and the block of a file that does not and that has a \r\n.
C2_Witness ==
    /\ pc = "done"
    /\ \E i, j \in 1..Len(blocks) :
          /\ blocks[i].read = "ok" /\ blocks[i].raw = <<"x", LF>>
          /\ blocks[j].read = "ok" /\ blocks[j].raw = <<"z", CR, LF, "y">>

\* C3: a file that cannot be opened or read does not abort the operation:
\* its block is the header and the comment line, with none of its content,
\* and the run goes on over the later files and completes.
C3_ReadFailureNeverAborts ==
    \A i \in 1..Len(blocks) :
        blocks[i].read = "failed" =>
            /\ Finished(i) =>
                 /\ IsPrefix(HeaderLine(blocks[i].src[2]) \o ErrorLine(blocks[i].src[2]),
                             blocks[i].text)
                 /\ Range(node[blocks[i].src].content) \cap Range(blocks[i].text) = {}
            /\ pc \in Final =>
                 /\ pc = "done"
                 /\ [k \in 1..Len(blocks) |-> blocks[k].src] = Candidates

\* C4: with two arguments of which the first is no directory, the process
\* exits with status 1; the file system is never changed, the output is
\* never opened and no directory is listed.
C4_InvalidDirectory ==
    (Len(argv) = 3 /\ ~(argv[2] \in DOMAIN before.node /\ before.node[argv[2]].isdir)) =>
        /\ node = before.node
        /\ listing = before.listing
        /\ opens = 0
        /\ ~out.open
        /\ walk = <<>> /\ root = "" /\ blocks = <<>>
        /\ pc \in {"main", "isdir", "exit"}
        /\ pc = "exit" => status = 1 /\ stdout = <<"Errore">>

\* C4 witness: the process has exited over an input path that is a file,
\* and the output path, free before the run, is still free.
C4_Witness ==
    /\ pc = "exit"
    /\ Len(argv) = 3
    /\ argv[2] = TxtPath
    /\ argv[3] \notin DOMAIN node

\* C5: with an argument count other than two, the usage message is printed
\* and the process exits with status 1 before the directory is tested;
\* the file system is never changed and no directory is listed.
C5_WrongArgumentCount ==
    Len(argv) # 3 =>
        /\ pc \in {"main", "exit"}
        /\ node = before.node
        /\ listing = before.listing
        /\ opens = 0
        /\ ~out.open
        /\ walk = <<>> /\ root = "" /\ blocks = <<>>
        /\ pc = "exit" => status = 1 /\ stdout = <<"Uso">>

\* C5 witness: the process has exited over three positional arguments.
C5_Witness ==
    /\ pc = "exit"
    /\ Len(argv) = 4
    /\ status = 1

\* C6: when the program is run twice in succession with the same command
\* line, the output file after the second run equals the output file after
\* the first, whatever it held before either run.
C6_SecondRunSameOutput ==
    (second /\ pc \in Final) => OutputFile = first

\* C6 witness: the second run has completed and left a non-empty output,
\* over an output file that held something else before the first run.
C6_Witness ==
    /\ second
    /\ pc = "done"
    /\ Len(OutputFile) > BufSize
    /\ argv[3] \in DOMAIN before.node
    /\ before.node[argv[3]].content # <<>>
    /\ before.node[argv[3]].content # OutputFile

\* C7: after a completed run the output file is the concatenation of one
\* block per candidate, none left out and none repeated, in the order in
\* which the walk yields the candidates.
C7_BlocksInWalkOrder ==
    pc = "done" =>
        /\ [i \in 1..Len(blocks) |-> blocks[i].src] = Candidates
        /\ \A i \in 1..Len(blocks) :
              IsPrefix(HeaderLine(blocks[i].src[2]), blocks[i].text)
        /\ OutputFile = WrittenBy(Len(blocks))

\* C7 witness: a completed run over candidates in the input directory and
\* in its subdirectory, with the subdirectory listed before a candidate of
\* the input directory.
C7_Witness ==
    /\ pc = "done"
    /\ Len(blocks) = 3
    /\ blocks[1].src[1] = "root"
    /\ blocks[3].src[1] = "sub"
    /\ listing["root"][1] = SubName

\* C8: a run that passes both validations never exits abnormally: it
\* reaches the completion message.
C8_OnlyValidationIsFatal ==
    (pc \in Final /\ Len(argv) = 3 /\ isdir(argv[2])) => pc = "done" /\ status = 0

\* C9: the output is opened once, before any directory is listed; it is
\* open at every step of the traversal and whenever an input is open, and
\* it is closed, with nothing held back, when the run has ended, by
\* completion or by an exception that left the loop.
C9_OutputHandleScope ==
    /\ opens <= 1
    /\ pc \in {"main", "isdir", "open"} => ~out.open /\ opens = 0
    /\ pc \in {"os.walk", "for root", "for filename", "header", "open r", "read",
               "write", "except", "close", "raise"} => out.open /\ opens = 1
    /\ (walk # <<>> \/ root # "") => opens = 1
    /\ f => out.open /\ pc \in {"read", "write"}
    /\ pc \in Final => ~out.open /\ out.buf = <<>> /\ ~f

\* C9 witness: an exception has left the loop after an input was read, and
\* the output is closed.
C9_Witness ==
    /\ pc = "crash"
    /\ opens = 1
    /\ ~out.open
    /\ \E i \in 1..Len(blocks) : blocks[i].read = "ok"

\* C10: the output file exists, created or truncated, before any directory
\* is listed; so with an output path under the input directory whose name
\* ends with .js, the listing of its directory yields it as a file, a
\* completed run leaves a block headed by its own name, and what is read
\* for that block is a prefix of what this run itself had written, never
\* what the file held before the run.
C10_OutputIsItsOwnCandidate ==
    /\ root # "" => opens = 1 /\ file_output \in DOMAIN node
    /\ (root # "" /\ root = file_output[1] /\ IsJs(file_output[2])) =>
          /\ file_output[2] \in Range(listing[root])
          /\ ~node[file_output].isdir
    /\ \A i \in 1..Len(blocks) :
          (blocks[i].src = file_output /\ blocks[i].read # "no") =>
              /\ blocks[i].read = "ok"
              /\ IsPrefix(blocks[i].raw, WrittenBy(i))
              /\ Existed => blocks[i].raw # Old
    /\ (pc = "done" /\ file_output[1] \in {"root", "sub"} /\ IsJs(file_output[2])) =>
          \E i \in 1..Len(blocks) :
              /\ blocks[i].src = file_output
              /\ IsPrefix(HeaderLine(file_output[2]), blocks[i].text)

\* C10 witness: a completed run whose output file existed under the input
\* directory, and read back part of what the run had written.
C10_Witness ==
    /\ pc = "done"
    /\ ~second
    /\ file_output \in DOMAIN before.node
    /\ \E i \in 1..Len(blocks) : blocks[i].src = file_output /\ blocks[i].raw # <<>>

====
